---- MODULE Spec2Model ----
(***************************************************************************)
(* Map memory of Cataclysm-BN (src/src/map_memory.cpp): a store of         *)
(* memorized submaps keyed by submap coordinate, a rectangular window of   *)
(* it held in a dense array, and the per-submap files behind it.           *)
(***************************************************************************)
EXTENDS Integers, Sequences, FiniteSets, TLC

VARIABLES
    cache_pos,       \* map_memory::cache_pos, the window origin (tripoint)
    cache_size,      \* map_memory::cache_size, the window extent (point)
    cached,          \* map_memory::cached, row-major sequence of submap references
    submaps,         \* map_memory::submaps, submap coordinate -> submap reference
    heap,            \* the memorized_submap objects the shared pointers refer to
    null_mz_submap,  \* the static memorized_submap returned outside the window
    disk,            \* the save directory: [dir, files, legacy]
    pc,              \* "running", or "aborted" after a failed assert
    io,              \* what the last call did: submaps fetched and loaded, save's result
    memorized,       \* world positions ever passed to memorize_tile / memorize_symbol
    steps,           \* number of calls made so far
    cpair,           \* a coord_pair under construction: the position, then sm and loc
    pf               \* a call of pf::find_path: its arguments, locals and result

vars == << cache_pos, cache_size, cached, submaps, heap, null_mz_submap,
           disk, pc, io, memorized, steps, cpair, pf >>

(***************************************************************************)
(* Bounds of the model.                                                    *)
(***************************************************************************)
\* Number of calls in a run.
MaxSteps == 3
\* MAPSIZE of game_constants.h, scaled down: load() fetches a square of
\* MM_SIZE x MM_SIZE submaps.
MAPSIZE == 1

(***************************************************************************)
(* Program constants.                                                      *)
(***************************************************************************)
\* SEEX, the edge of a submap in map squares (the spec's chunk edge S).
SEEX == 12

\* MM_SIZE without the factor: the square load() fetches is half as wide.
MM_SIZE_once == MAPSIZE

MM_SIZE == MAPSIZE * 2

default_tile == [ter |-> "", subtile |-> 0, rotation |-> 0]

default_symbol == 0

(***************************************************************************)
(* Points.                                                                 *)
(***************************************************************************)
point(x, y) == [x |-> x, y |-> y]

tripoint(x, y, z) == [x |-> x, y |-> y, z |-> z]

\* tripoint + point, tripoint - point
tri_plus(p, d) == tripoint(p.x + d.x, p.y + d.y, p.z)

tri_minus(p, d) == tripoint(p.x - d.x, p.y - d.y, p.z)

(***************************************************************************)
(* Inputs the calls are made with.                                         *)
(***************************************************************************)
\* World positions: submap (0,0,0), the same square one level up, a
\* negative x in submap (-1,0,0), and submap (1,0,0).
Positions ==
    { tripoint(5, 5, 0), tripoint(5, 5, 1), tripoint(-1, 5, 0), tripoint(17, 5, 0) }

\* The rectangles prepare_region is called with. Well-formed: one submap on
\* either level, around the negative corner and around the right one, three
\* submaps in a row, two in a column. Malformed: levels differ, x reversed,
\* y reversed.
Rectangles ==
    { << tripoint(5, 5, 0), tripoint(5, 5, 0) >>,
      << tripoint(5, 5, 1), tripoint(5, 5, 1) >>,
      << tripoint(-1, 5, 0), tripoint(-1, 5, 0) >>,
      << tripoint(17, 5, 0), tripoint(17, 5, 0) >>,
      << tripoint(-1, 5, 0), tripoint(17, 5, 0) >>,
      << tripoint(5, 5, 0), tripoint(5, 17, 0) >>,
      << tripoint(5, 5, 0), tripoint(5, 5, 1) >>,
      << tripoint(17, 5, 0), tripoint(5, 5, 0) >>,
      << tripoint(5, 17, 0), tripoint(5, 5, 0) >> }

\* Positions load is called with: the player on either level.
FocalPositions == { tripoint(5, 5, 0), tripoint(5, 5, 1) }

Tiles == { [ter |-> "t_floor", subtile |-> 2, rotation |-> 1] }

Symbols == { 35 }

(***************************************************************************)
(* memorized_submap and coord_pair.                                        *)
(***************************************************************************)
\* ms_to_sm_remain: the submap of a map square (floor division) ...
ms_to_sm(x, y) == point(x \div SEEX, y \div SEEX)

\* ... and what it leaves in its arguments, the offset inside the submap.
ms_remain(x, y) == point(x % SEEX, y % SEEX)

\* coord_pair with the submap taken by C++'s own division, which rounds
\* toward zero.
coord_pair_truncating(p) ==
    [ sm  |-> tripoint(IF p.x < 0 THEN -((-p.x) \div SEEX) ELSE p.x \div SEEX,
                       IF p.y < 0 THEN -((-p.y) \div SEEX) ELSE p.y \div SEEX, p.z),
      loc |-> ms_remain(p.x, p.y) ]

coord_pair(p) ==
    [ sm  |-> tripoint(ms_to_sm(p.x, p.y).x, ms_to_sm(p.x, p.y).y, p.z),
      loc |-> ms_remain(p.x, p.y) ]

\* A submap holds SEEX x SEEX cells, tiles[x][y] and symbols[x][y]. No call
\* addresses a cell other than those of Cells, the offsets of the positions
\* the calls are made with; every other cell is default in every state, and
\* the model keeps the cells of Cells.
Cells == {coord_pair(p).loc : p \in Positions}

\* memorized_submap::memorized_submap(): every cell default.
memorized_submap ==
    [ tiles   |-> [c \in Cells |-> default_tile],
      symbols |-> [c \in Cells |-> default_symbol] ]

(***************************************************************************)
(* File names and file contents.                                           *)
(***************************************************************************)
\* g->get_player_base_save_path() + ".mm1"
find_mm_dir == "player.mm1"

\* The file name without the level: "%s/%d.%d.mm".
find_submap_path_no_z(dirname, p) == << dirname, p.x, p.y >>

\* "%s/%d.%d.%d.mm": the directory and the three numbers, which the
\* separators keep apart.
find_submap_path(dirname, p) == << dirname, p.x, p.y, p.z >>

\* The place of a cell in a grid written row by row.
flat_index(c) == c.y * SEEX + c.x

\* memorized_submap::serialize: the two grids as flat lists, row by row.
serialize(sm) ==
    [ valid   |-> TRUE,
      tiles   |-> [i \in {flat_index(c) : c \in Cells} |->
                      sm.tiles[point(i % SEEX, i \div SEEX)]],
      symbols |-> [i \in {flat_index(c) : c \in Cells} |->
                      sm.symbols[point(i % SEEX, i \div SEEX)]] ]

\* memorized_submap::deserialize of a stream that parses.
deserialize(f) ==
    [ tiles   |-> [c \in Cells |-> f.tiles[flat_index(c)]],
      symbols |-> [c \in Cells |-> f.symbols[flat_index(c)]] ]

\* A file whose content does not parse: deserialize throws on it.
garbage == [valid |-> FALSE, tiles |-> << >>, symbols |-> << >>]

\* No map square remembered in the legacy file / no legacy file.
no_legacy == [exists |-> FALSE, valid |-> FALSE, elems |-> << >>]

\* std::map<tripoint, ...> iterates in the order of tripoint's operator<.
tripoint_less(a, b) ==
    \/ a.x < b.x
    \/ a.x = b.x /\ a.y < b.y
    \/ a.x = b.x /\ a.y = b.y /\ a.z < b.z

(***************************************************************************)
(* The chunk store: fetch_submap, allocate_submap, load_submap.            *)
(***************************************************************************)
nullptr == [found |-> FALSE, sm |-> memorized_submap]

\* allocate_submap(): a fresh all-default submap.
allocate_submap == memorized_submap

\* load_submap handing back the submap its loader allocated although
\* deserialize threw.
load_submap_keeps_partial(sm_pos) ==
    LET dirname == find_mm_dir
        path    == find_submap_path(dirname, sm_pos)
    IN  IF ~disk.dir
        THEN nullptr
        ELSE IF path \notin DOMAIN disk.files
        THEN nullptr
        ELSE IF ~disk.files[path].valid
        THEN [found |-> TRUE, sm |-> allocate_submap]
        ELSE [found |-> TRUE, sm |-> deserialize(disk.files[path])]

\* load_submap(sm_pos): the submap read from its file, or nullptr.
load_submap(sm_pos) ==
    LET dirname == find_mm_dir
        path    == find_submap_path(dirname, sm_pos)
    IN  IF ~disk.dir
        THEN nullptr                       \* no [plname].mm1 folder
        ELSE IF path \notin DOMAIN disk.files
        THEN nullptr                       \* read_from_file_optional_json: no file
        ELSE IF ~disk.files[path].valid
        THEN nullptr                       \* deserialize threw, debugmsg
        ELSE [found |-> TRUE, sm |-> deserialize(disk.files[path])]

\* fetch_submap without the lookup: every fetch loads or allocates, and the
\* new submap takes the place of the tracked one.
fetch_submap_reload(st, sm_pos) ==
    LET r   == load_submap(sm_pos)
        sm1 == IF r.found THEN r.sm ELSE allocate_submap
        id  == Len(st.heap) + 1
    IN  [ submaps |-> (sm_pos :> id) @@ st.submaps,
          heap    |-> Append(st.heap, sm1),
          fetched |-> st.fetched \cup {sm_pos},
          loaded  |-> st.loaded \cup {sm_pos},
          ret     |-> id ]

\* fetch_submap(sm_pos) on the store st = [submaps, heap, fetched, loaded, ret]:
\* the tracked submap, or a loaded / fresh one registered under sm_pos.
fetch_submap(st, sm_pos) ==
    IF sm_pos \notin DOMAIN st.submaps
    THEN LET r   == load_submap(sm_pos)
             sm1 == IF r.found THEN r.sm ELSE allocate_submap
             id  == Len(st.heap) + 1
         IN  [ submaps |-> (sm_pos :> id) @@ st.submaps,
               heap    |-> Append(st.heap, sm1),
               fetched |-> st.fetched \cup {sm_pos},
               loaded  |-> st.loaded \cup {sm_pos},
               ret     |-> id ]
    ELSE [st EXCEPT !.fetched = st.fetched \cup {sm_pos},
                    !.ret = st.submaps[sm_pos]]

\* The store as the calls below thread it through fetch_submap.
store0 ==
    [ submaps |-> submaps, heap |-> heap, fetched |-> {}, loaded |-> {}, ret |-> 0 ]

\* The loops nested the other way round: dx outer, dy inner.
column_major(start, w, h) ==
    [i \in 1 .. w * h |-> tri_plus(start, point((i - 1) \div h, (i - 1) % h))]

\* The coordinates start + (dx, dy), dy outer and dx inner, as both loops
\* over a rectangle of w x h submaps visit them.
row_major(start, w, h) ==
    [i \in 1 .. w * h |-> tri_plus(start, point((i - 1) % w, (i - 1) \div w))]

\* fetch_submap over a sequence of coordinates, collecting what it returns.
RECURSIVE fetch_all(_, _, _)
fetch_all(st, coords, acc) ==
    IF coords = << >>
    THEN [st |-> st, cached |-> acc]
    ELSE LET st1 == fetch_submap(st, Head(coords))
         IN  fetch_all(st1, Tail(coords), Append(acc, st1.ret))

(***************************************************************************)
(* The window lookup.                                                      *)
(***************************************************************************)
null_ref == [kind |-> "null", id |-> 0]

\* get_submap(sm_pos), non-const: a reference to a cell of the dense array,
\* or to null_mz_submap.
get_submap(sm_pos) ==
    LET idx == point(sm_pos.x - cache_pos.x, sm_pos.y - cache_pos.y)
    IN  IF idx.x > 0 /\ idx.y > 0 /\ idx.x < cache_size.x /\ idx.y < cache_size.y
        THEN [kind |-> "cached", id |-> cached[idx.y * cache_size.x + idx.x + 1]]
        ELSE null_ref

\* get_submap(sm_pos) const.
get_submap_const(sm_pos) ==
    LET idx == point(sm_pos.x - cache_pos.x, sm_pos.y - cache_pos.y)
    IN  IF idx.x > 0 /\ idx.y > 0 /\ idx.x < cache_size.x /\ idx.y < cache_size.y
        THEN [kind |-> "cached", id |-> cached[idx.y * cache_size.x + idx.x + 1]]
        ELSE null_ref

\* The submap a reference refers to.
deref(ref) == IF ref.kind = "cached" THEN heap[ref.id] ELSE null_mz_submap

\* Assignment through a reference.
assign(ref, sm) ==
    /\ heap' = IF ref.kind = "cached" THEN [heap EXCEPT ![ref.id] = sm] ELSE heap
    /\ null_mz_submap' = IF ref.kind = "cached" THEN null_mz_submap ELSE sm

get_tile(pos) ==
    LET p == coord_pair(pos)
    IN  deref(get_submap_const(p.sm)).tiles[p.loc]

get_symbol(pos) ==
    LET p == coord_pair(pos)
    IN  deref(get_submap_const(p.sm)).symbols[p.loc]

\* The record of a call that fetched, loaded and wrote nothing.
io_of(op) == [op |-> op, fetched |-> {}, loaded |-> {}, ret |-> "none", failed |-> {}]

(***************************************************************************)
(* The state after construction, over the save directories a game can      *)
(* start from.                                                             *)
(***************************************************************************)
\* A submap as an earlier session saved it: one remembered square.
saved_submap ==
    [ tiles   |-> [memorized_submap.tiles EXCEPT
                      ![point(5, 5)] = [ter |-> "t_wall", subtile |-> 1, rotation |-> 0]],
      symbols |-> [memorized_submap.symbols EXCEPT ![point(5, 5)] = 46] ]

\* What the legacy file remembers: one map square of submap (0,0,0).
legacy_elems ==
    << [ pos    |-> tripoint(5, 5, 0),
         tile   |-> [ter |-> "t_wall", subtile |-> 1, rotation |-> 0],
         symbol |-> 46 ] >>

InitialDisks ==
    { \* a new character: nothing saved yet
      [dir |-> FALSE, files |-> << >>, legacy |-> no_legacy],
      \* a current save: submap (0,0,0) saved, the file of (-1,0,0) damaged
      [dir |-> TRUE,
       files |-> (find_submap_path(find_mm_dir, tripoint(0, 0, 0)) :> serialize(saved_submap))
                 @@ (find_submap_path(find_mm_dir, tripoint(-1, 0, 0)) :> garbage),
       legacy |-> no_legacy],
      \* an old save: only the legacy file
      [dir |-> FALSE, files |-> << >>,
       legacy |-> [exists |-> TRUE, valid |-> TRUE, elems |-> legacy_elems]],
      \* an old save whose legacy file is damaged
      [dir |-> FALSE, files |-> << >>,
       legacy |-> [exists |-> TRUE, valid |-> FALSE, elems |-> << >>]] }

\* No coord_pair is being constructed outside map_memory's calls.
cpair_idle ==
    [p |-> tripoint(0, 0, 0), done |-> FALSE, sm |-> tripoint(0, 0, 0), loc |-> point(0, 0)]

\* No call of find_path is under way.
pf_idle ==
    [ pc |-> "idle", source |-> point(0, 0), dest |-> point(0, 0), max |-> point(0, 0),
      offsets |-> << >>, w |-> << >>, closed |-> << >>, open |-> << >>, dirs |-> << >>,
      nodes |-> << >>, pushed |-> {}, res |-> << >> ]

Init ==
    /\ cpair = cpair_idle
    /\ pf = pf_idle
    /\ cache_pos = tripoint(0, 0, 0)
    /\ cache_size = point(0, 0)
    /\ cached = << >>
    /\ submaps = << >>
    /\ heap = << >>
    /\ null_mz_submap = memorized_submap
    /\ disk \in InitialDisks
    /\ pc = "running"
    /\ io = io_of("none")
    /\ memorized = {}
    /\ steps = 0

\* Every call is made by the running game, one after the other.
Call ==
    /\ pc = "running"
    /\ steps < MaxSteps
    /\ steps' = steps + 1
    /\ UNCHANGED << cpair, pf >>

(***************************************************************************)
(* memorize_tile, memorize_symbol, clear_memorized_tile.                   *)
(***************************************************************************)
MemorizeTile(pos, ter, subtile, rotation) ==
    /\ Call
    /\ LET p  == coord_pair(pos)
           sm == get_submap(p.sm)
       IN  assign(sm, [deref(sm) EXCEPT !.tiles[p.loc] =
                          [ter |-> ter, subtile |-> subtile, rotation |-> rotation]])
    /\ memorized' = memorized \cup {pos}
    /\ io' = io_of("memorize_tile")
    /\ UNCHANGED << cache_pos, cache_size, cached, submaps, disk, pc >>

MemorizeSymbol(pos, symbol) ==
    /\ Call
    /\ LET p  == coord_pair(pos)
           sm == get_submap(p.sm)
       IN  assign(sm, [deref(sm) EXCEPT !.symbols[p.loc] = symbol])
    /\ memorized' = memorized \cup {pos}
    /\ io' = io_of("memorize_symbol")
    /\ UNCHANGED << cache_pos, cache_size, cached, submaps, disk, pc >>

ClearMemorizedTile(pos) ==
    /\ Call
    /\ LET p  == coord_pair(pos)
           sm == get_submap(p.sm)
       IN  assign(sm, [deref(sm) EXCEPT !.symbols[p.loc] = default_symbol,
                                        !.tiles[p.loc] = default_tile])
    /\ io' = io_of("clear_memorized_tile")
    /\ UNCHANGED << cache_pos, cache_size, cached, submaps, disk, pc, memorized >>

(***************************************************************************)
(* prepare_region.                                                         *)
(***************************************************************************)
\* The window prepare_region computes for a rectangle.
region_pos(p1) == tri_minus(coord_pair(p1).sm, point(1, 1))

\* The size without the + point( 1, 1 ): the high submap left out.
region_size_exclusive(p1, p2) ==
    point(coord_pair(p2).sm.x - region_pos(p1).x,
          coord_pair(p2).sm.y - region_pos(p1).y)

region_size(p1, p2) ==
    point(coord_pair(p2).sm.x - region_pos(p1).x + 1,
          coord_pair(p2).sm.y - region_pos(p1).y + 1)

\* The asserts without the one on the level.
region_ok_no_z(p1, p2) == p1.x <= p2.x /\ p1.y <= p2.y

\* The two asserts.
region_ok(p1, p2) == p1.z = p2.z /\ p1.x <= p2.x /\ p1.y <= p2.y

\* The early-return test with the size compared against the position.
same_window_typo(sm_pos, sm_size) ==
    sm_pos = cache_pos /\ sm_size = point(cache_pos.x, cache_pos.y)

\* The test that lets prepare_region return early.
same_window(sm_pos, sm_size) == sm_pos = cache_pos /\ sm_size = cache_size

PrepareRegion(p1, p2) ==
    /\ Call
    /\ IF ~region_ok(p1, p2)
       THEN \* assert fails: the process aborts
            /\ pc' = "aborted"
            /\ io' = io_of("prepare_region")
            /\ UNCHANGED << cache_pos, cache_size, cached, submaps, heap >>
       ELSE LET sm_pos  == region_pos(p1)
                sm_size == region_size(p1, p2)
            IN  IF same_window(sm_pos, sm_size)
                THEN /\ io' = io_of("prepare_region")
                     /\ UNCHANGED << cache_pos, cache_size, cached, submaps, heap, pc >>
                ELSE LET r == fetch_all(store0,
                                        row_major(sm_pos, sm_size.x, sm_size.y), << >>)
                     IN  /\ cache_pos' = sm_pos
                         /\ cache_size' = sm_size
                         /\ cached' = r.cached
                         /\ submaps' = r.st.submaps
                         /\ heap' = r.st.heap
                         /\ io' = [io_of("prepare_region") EXCEPT
                                       !.fetched = r.st.fetched,
                                       !.loaded = r.st.loaded]
                         /\ UNCHANGED pc
    /\ UNCHANGED << null_mz_submap, disk, memorized >>

(***************************************************************************)
(* load.                                                                   *)
(***************************************************************************)
\* load_legacy: every remembered map square of the legacy file is written
\* into the store's submap of its coordinate, allocated if untracked.
RECURSIVE load_legacy(_, _)
load_legacy(st, elems) ==
    IF elems = << >>
    THEN st
    ELSE LET e   == Head(elems)
             cp  == coord_pair(e.pos)
             new == cp.sm \notin DOMAIN st.submaps
             id  == IF new THEN Len(st.heap) + 1 ELSE st.submaps[cp.sm]
             h1  == IF new THEN Append(st.heap, allocate_submap) ELSE st.heap
             st1 == [st EXCEPT
                        !.submaps = IF new THEN (cp.sm :> id) @@ st.submaps
                                    ELSE st.submaps,
                        !.heap = [h1 EXCEPT
                                     ![id].tiles[cp.loc] = e.tile,
                                     ![id].symbols[cp.loc] = e.symbol]]
         IN  load_legacy(st1, Tail(elems))

Load(pos) ==
    /\ Call
    /\ IF ~disk.dir
       THEN \* old saves: the legacy file, if there is one and it parses
            IF disk.legacy.exists /\ disk.legacy.valid
            THEN LET st == load_legacy(store0, disk.legacy.elems)
                 IN  /\ submaps' = st.submaps
                     /\ heap' = st.heap
                     /\ io' = io_of("load")
            ELSE /\ io' = io_of("load")
                 /\ UNCHANGED << submaps, heap >>
       ELSE LET p     == coord_pair(pos)
                start == tripoint(p.sm.x - MM_SIZE \div 2, p.sm.y - MM_SIZE \div 2, p.sm.z)
                r     == fetch_all(store0, row_major(start, MM_SIZE, MM_SIZE), << >>)
            IN  /\ submaps' = r.st.submaps
                /\ heap' = r.st.heap
                /\ io' = [io_of("load") EXCEPT !.fetched = r.st.fetched,
                                                !.loaded = r.st.loaded]
    /\ UNCHANGED << cache_pos, cache_size, cached, null_mz_submap, disk, pc, memorized >>

(***************************************************************************)
(* save.                                                                   *)
(***************************************************************************)
\* The tracked coordinate written last to a path: the greatest in map order.
last_writer(cs) == CHOOSE c \in cs : \A d \in cs : d = c \/ tripoint_less(d, c)

\* save() that also drops what the store does not track: only the files of
\* the tracked submaps are left in the directory.
SaveDroppingUntracked(mkdir_ok, failing) ==
    /\ Call
    /\ LET dirname == find_mm_dir
           dir1    == disk.dir \/ mkdir_ok
           written == IF dir1 THEN DOMAIN submaps \ failing ELSE {}
           paths   == {find_submap_path(dirname, c) : c \in written}
           content(path) ==
               serialize(heap[submaps[last_writer(
                   {c \in written : find_submap_path(dirname, c) = path})]])
       IN  /\ disk' = [disk EXCEPT
                          !.dir = dir1,
                          !.files = [path \in paths |-> content(path)]]
           /\ io' = [io_of("save") EXCEPT !.ret = "true",
                                         !.failed = DOMAIN submaps \ written]
    /\ UNCHANGED << cache_pos, cache_size, cached, submaps, heap, null_mz_submap,
                    pc, memorized >>

\* save(): mkdir_ok tells whether assure_dir_exist can create the directory,
\* failing names the tracked submaps whose write_to_file fails.
Save(mkdir_ok, failing) ==
    /\ Call
    /\ LET dirname == find_mm_dir
           dir1    == disk.dir \/ mkdir_ok
           written == IF dir1 THEN DOMAIN submaps \ failing ELSE {}
           paths   == {find_submap_path(dirname, c) : c \in written}
           content(path) ==
               serialize(heap[submaps[last_writer(
                   {c \in written : find_submap_path(dirname, c) = path})]])
       IN  /\ disk' = [disk EXCEPT
                          !.dir = dir1,
                          !.files = [path \in DOMAIN disk.files \cup paths |->
                                        IF path \in paths THEN content(path)
                                        ELSE disk.files[path]]]
           /\ io' = [io_of("save") EXCEPT !.ret = "true",
                                         !.failed = DOMAIN submaps \ written]
    /\ UNCHANGED << cache_pos, cache_size, cached, submaps, heap, null_mz_submap,
                    pc, memorized >>

\* The writes the model lets fail: none, or that of submap (0,0,0).
FailChoices == {{}, {tripoint(0, 0, 0)}}

Next ==
    \/ \E pos \in Positions, t \in Tiles :
           MemorizeTile(pos, t.ter, t.subtile, t.rotation)
    \/ \E pos \in Positions, symbol \in Symbols : MemorizeSymbol(pos, symbol)
    \/ \E pos \in Positions : ClearMemorizedTile(pos)
    \/ \E r \in Rectangles : PrepareRegion(r[1], r[2])
    \/ \E pos \in FocalPositions : Load(pos)
    \/ \E mkdir_ok \in BOOLEAN, failing \in FailChoices : Save(mkdir_ok, failing)

Spec == Init /\ [][Next]_vars

(***************************************************************************)
(* coord_pair on its own: the constructor applied to one world position.   *)
(***************************************************************************)
\* World coordinates run over -CoordRange .. CoordRange: more than a submap
\* on either side of the origin.
CoordRange == 13

CoordInputs ==
    { tripoint(x, y, z) : x \in -CoordRange .. CoordRange,
                          y \in -CoordRange .. CoordRange, z \in -1 .. 1 }

\* The members of map_memory as its constructor leaves them, with the save
\* directory of a new character.
map_memory_idle ==
    /\ cache_pos = tripoint(0, 0, 0)
    /\ cache_size = point(0, 0)
    /\ cached = << >>
    /\ submaps = << >>
    /\ heap = << >>
    /\ null_mz_submap = memorized_submap
    /\ disk = [dir |-> FALSE, files |-> << >>, legacy |-> no_legacy]
    /\ pc = "running"
    /\ io = io_of("none")
    /\ memorized = {}
    /\ steps = 0

map_memory_vars ==
    << cache_pos, cache_size, cached, submaps, heap, null_mz_submap,
       disk, pc, io, memorized, steps >>

InitCoord ==
    /\ map_memory_idle
    /\ pf = pf_idle
    /\ \E p \in CoordInputs :
           cpair = [p |-> p, done |-> FALSE, sm |-> tripoint(0, 0, 0), loc |-> point(0, 0)]

\* coord_pair::coord_pair( p )
CoordPair ==
    /\ ~cpair.done
    /\ cpair' = [p |-> cpair.p, done |-> TRUE,
                 sm |-> coord_pair(cpair.p).sm, loc |-> coord_pair(cpair.p).loc]
    /\ UNCHANGED << map_memory_vars, pf >>

NextCoord == CoordPair

SpecCoord == InitCoord /\ [][NextCoord]_vars

(***************************************************************************)
(* pf::find_path (src/src/simple_pathfinding.h): A* over a grid of         *)
(* max.x x max.y points, one action per pass of its while loop.            *)
(***************************************************************************)
\* std::numeric_limits<int>::min()
rejected == -2147483647 - 1

\* std::numeric_limits<int>::max(), what open[] holds for the source
int_max == 2147483647

\* point.h: north, east, south, west
four_adjacent_offsets == << point(0, -1), point(1, 0), point(0, 1), point(-1, 0) >>

\* point.h: clockwise from north
eight_adjacent_offsets ==
    << point(0, -1), point(1, -1), point(1, 0), point(1, 1),
       point(0, 1), point(-1, 1), point(-1, 0), point(-1, -1) >>

node(p, dir, priority) == [pos |-> p, dir |-> dir, priority |-> priority]

\* The estimator's second argument for the first node: no previous node.
null_node == [pos |-> point(0, 0), dir |-> -2, priority |-> 0]

inbounds(max, p) == p.x >= 0 /\ p.x < max.x /\ p.y >= 0 /\ p.y < max.y

map_index(max, p) == p.y * max.x + p.x

\* The estimators the callers pass: w gives every point its value, rejected
\* or another negative value or a cost, and a step that turns costs one more.
estimator(w, cur, prev) ==
    IF w[cur.pos] < 0
    THEN w[cur.pos]
    ELSE IF prev # null_node /\ prev.dir # cur.dir
    THEN w[cur.pos] + 1
    ELSE w[cur.pos]

\* The recorded direction without the half turn: it points on, not back.
back_dir_forward(dir, size) == dir % size

\* ( dir + offsets.size() / 2 ) % offsets.size()
back_dir(dir, size) == (dir + size \div 2) % size

\* The for loop over the directions of mn, from dir on.
RECURSIVE expand(_, _, _)
expand(st, mn, dir) ==
    IF dir >= Len(st.offsets)
    THEN st
    ELSE LET p  == point(mn.pos.x + st.offsets[dir + 1].x,
                         mn.pos.y + st.offsets[dir + 1].y)
             n  == map_index(st.max, p)
         IN  IF ~inbounds(st.max, p) \/ st.closed[n]
             THEN expand(st, mn, dir + 1)
             ELSE LET priority == estimator(st.w, node(p, dir, 0), mn)
                  IN  IF priority = rejected
                      THEN expand(st, mn, dir + 1)
                      ELSE IF st.open[n] = 0 \/ st.open[n] > priority
                      THEN expand([st EXCEPT
                                      !.dirs[n] = back_dir(dir, Len(st.offsets)),
                                      !.open[n] = priority,
                                      !.nodes = Append(@, node(p, dir, priority)),
                                      !.pushed = @ \cup {p}],
                                  mn, dir + 1)
                      ELSE expand(st, mn, dir + 1)

\* The loop that draws the path from dest back to source. It reads dirs[]
\* outside the grid, or never ends, if the directions do not lead back:
\* ok tells that it reached source.
RECURSIVE draw_path(_, _, _, _)
draw_path(st, p, acc, fuel) ==
    IF p = st.source
    THEN [ok |-> TRUE, nodes |-> Append(acc, node(p, -1, 0))]
    ELSE IF ~inbounds(st.max, p) \/ fuel = 0
    THEN [ok |-> FALSE, nodes |-> acc]
    ELSE LET dir == st.dirs[map_index(st.max, p)]
         IN  draw_path(st,
                       point(p.x + st.offsets[dir + 1].x, p.y + st.offsets[dir + 1].y),
                       Append(acc, node(p, dir, 0)), fuel - 1)

\* The arguments find_path is called with.
PathGrid == point(3, 2)

GridPoints == {point(x, y) : x \in 0 .. PathGrid.x - 1, y \in 0 .. PathGrid.y - 1}

\* A corner of the grid and a point left of it.
Sources == {point(0, 0), point(-1, 0)}

\* The opposite corner, the source itself and a point right of the grid.
Dests == {point(2, 1), point(0, 0), point(3, 1)}

OffsetChoices == {four_adjacent_offsets, eight_adjacent_offsets}

EstimatorValues == {rejected, -1, 0, 1}

InitPath ==
    /\ map_memory_idle
    /\ cpair = cpair_idle
    /\ \E source \in Sources, dest \in Dests, offsets \in OffsetChoices,
          w \in [GridPoints -> EstimatorValues] :
           pf = [pf_idle EXCEPT !.pc = "call", !.source = source, !.dest = dest,
                                !.max = PathGrid, !.offsets = offsets, !.w = w]

\* find_path up to its loop: the early returns, the first node, the arrays.
FindPathCall ==
    /\ pf.pc = "call"
    /\ LET first_node == node(pf.source, 5, 1000)
           map_size   == pf.max.x * pf.max.y
       IN  IF pf.source = pf.dest
           THEN pf' = [pf EXCEPT !.pc = "done", !.res = << >>]
           ELSE IF ~inbounds(pf.max, pf.source) \/ ~inbounds(pf.max, pf.dest)
           THEN pf' = [pf EXCEPT !.pc = "done", !.res = << >>]
           ELSE IF estimator(pf.w, first_node, null_node) = rejected
           THEN pf' = [pf EXCEPT !.pc = "done", !.res = << >>]
           ELSE pf' = [pf EXCEPT
                          !.pc = "loop",
                          !.closed = [i \in 0 .. map_size - 1 |-> FALSE],
                          !.open = [i \in 0 .. map_size - 1 |->
                                       IF i = map_index(pf.max, pf.source)
                                       THEN int_max ELSE 0],
                          !.dirs = [i \in 0 .. map_size - 1 |-> 0],
                          !.nodes = << first_node >>,
                          !.pushed = {pf.source}]
    /\ UNCHANGED << map_memory_vars, cpair >>

\* One pass of the while loop: the queue is empty and find_path returns the
\* empty path, or the best node is popped and closed and then either is dest,
\* and the path is drawn, or has its neighbours examined. Which of several
\* nodes of the same priority std::priority_queue gives first is not modelled:
\* any of them.
FindPathStep ==
    /\ pf.pc = "loop"
    /\ IF pf.nodes = << >>
       THEN pf' = [pf EXCEPT !.pc = "done", !.res = << >>]
       ELSE \E i \in DOMAIN pf.nodes :
                /\ \A j \in DOMAIN pf.nodes : pf.nodes[i].priority <= pf.nodes[j].priority
                /\ LET mn   == pf.nodes[i]
                       rest == [k \in 1 .. Len(pf.nodes) - 1 |->
                                   IF k < i THEN pf.nodes[k] ELSE pf.nodes[k + 1]]
                       st   == [pf EXCEPT !.nodes = rest,
                                          !.closed[map_index(pf.max, mn.pos)] = TRUE]
                   IN  IF mn.pos = pf.dest
                       THEN LET r == draw_path(st, mn.pos, << >>, pf.max.x * pf.max.y)
                            IN  pf' = [st EXCEPT
                                          !.pc = IF r.ok THEN "done" ELSE "undefined",
                                          !.res = r.nodes]
                       ELSE pf' = expand(st, mn, 0)
    /\ UNCHANGED << map_memory_vars, cpair >>

NextPath == FindPathCall \/ FindPathStep

SpecPath == InitPath /\ [][NextPath]_vars

(***************************************************************************)
(* Properties.                                                             *)
(***************************************************************************)
\* Submap coordinates around the windows the model builds, on both levels.
SubmapCoords == {tripoint(x, y, z) : x \in -3 .. 3, y \in -3 .. 3, z \in 0 .. 1}

\* Window membership as the data model defines it: idx within [0, size).
idx_of(sm) == point(sm.x - cache_pos.x, sm.y - cache_pos.y)

in_rect(sm) ==
    /\ 0 <= idx_of(sm).x /\ idx_of(sm).x < cache_size.x
    /\ 0 <= idx_of(sm).y /\ idx_of(sm).y < cache_size.y

\* The window cell of a coordinate inside the rectangle.
cell_ref(sm) ==
    [kind |-> "cached", id |-> cached[idx_of(sm).y * cache_size.x + idx_of(sm).x + 1]]

\* The window covers a submap coordinate: same level, inside the rectangle.
covers(sm) == sm.z = cache_pos.z /\ in_rect(sm)

\* The positions with the x, y of pos on the other levels.
other_levels(pos) == {tripoint(pos.x, pos.y, z) : z \in 0 .. 1} \ {pos}

\* What the save directory remembers of a position.
on_disk(pos) ==
    LET cp   == coord_pair(pos)
        path == find_submap_path(find_mm_dir, cp.sm)
    IN  \/ /\ disk.dir
           /\ path \in DOMAIN disk.files
           /\ disk.files[path].valid
           /\ \/ disk.files[path].tiles[flat_index(cp.loc)] # default_tile
              \/ disk.files[path].symbols[flat_index(cp.loc)] # default_symbol
        \/ \E i \in DOMAIN disk.legacy.elems : disk.legacy.elems[i].pos = pos

never_remembered(pos) == pos \notin memorized /\ ~on_disk(pos)

\* C1: the window lookup, in both variants, returns the window cell
\* cells[idx.y*size.x+idx.x] for every coordinate with idx within [0, size),
\* the first row and column included, and the sentinel for every other one.
C1_IndexZeroInBounds ==
    \A sm \in SubmapCoords :
        IF in_rect(sm)
        THEN get_submap(sm) = cell_ref(sm) /\ get_submap_const(sm) = cell_ref(sm)
        ELSE get_submap(sm) = null_ref /\ get_submap_const(sm) = null_ref

\* C2: memorize_tile at a position the window covers makes get_tile return
\* the tile there, and get_tile at the same x, y on another level that was
\* never remembered returns the default entry.
C2_LevelsAreSeparate ==
    [][ \A pos \in Positions, t \in Tiles :
            ( /\ io'.op = "memorize_tile"
              /\ covers(coord_pair(pos).sm)
              /\ MemorizeTile(pos, t.ter, t.subtile, t.rotation) )
            => /\ get_tile(pos)' = t
               /\ \A q \in other_levels(pos) :
                      never_remembered(q)' => get_tile(q)' = default_tile ]_vars

\* C3: memorize_tile, memorize_symbol and clear_memorized_tile at a position
\* whose submap the window does not cover (other x, y or other level) change
\* no submap of the store, and the lookup of that position resolves to the
\* sentinel without indexing the dense array.
C3_OutOfWindowWritesAreInert ==
    [][ \A pos \in Positions :
            ( /\ steps' = steps + 1
              /\ ~covers(coord_pair(pos).sm)
              /\ \/ \E t \in Tiles : MemorizeTile(pos, t.ter, t.subtile, t.rotation)
                 \/ \E symbol \in Symbols : MemorizeSymbol(pos, symbol)
                 \/ ClearMemorizedTile(pos) )
            => /\ heap' = heap
               /\ get_submap_const(coord_pair(pos).sm) = null_ref ]_vars

\* C4: every cell of the sentinel holds the default tile and the default
\* symbol in every reachable state.
C4_SentinelAlwaysDefault == null_mz_submap = memorized_submap

\* C5: a position whose submap was never fetched, that was never memorized
\* and has no submap file reads as the default tile and the default symbol.
C5_NeverSeenReadsDefault ==
    \A pos \in Positions :
        ( /\ coord_pair(pos).sm \notin DOMAIN submaps
          /\ pos \notin memorized
          /\ find_submap_path(find_mm_dir, coord_pair(pos).sm) \notin DOMAIN disk.files )
        => get_tile(pos) = default_tile /\ get_symbol(pos) = default_symbol

\* C6: prepare_region with a rectangle whose window equals the current one
\* fetches nothing, loads nothing, and leaves the window, the dense array,
\* the store and its submaps as they were.
C6_PrepareRegionIdempotent ==
    [][ \A p1 \in {r[1] : r \in Rectangles}, p2 \in {r[2] : r \in Rectangles} :
            ( /\ io'.op = "prepare_region"
              /\ p1.z = p2.z /\ p1.x <= p2.x /\ p1.y <= p2.y
              /\ cache_pos = tripoint(p1.x \div SEEX - 1, p1.y \div SEEX - 1, p1.z)
              /\ cache_size = point(p2.x \div SEEX - cache_pos.x + 1,
                                    p2.y \div SEEX - cache_pos.y + 1)
              /\ PrepareRegion(p1, p2) )
            => /\ io'.fetched = {} /\ io'.loaded = {}
               /\ UNCHANGED << cache_pos, cache_size, cached, submaps, heap, disk >>
      ]_vars

\* A second prepare_region of the same window has returned early.
C6_Witness ==
    /\ pc = "running"
    /\ io.op = "prepare_region"
    /\ io.fetched = {}
    /\ cache_size.x * cache_size.y > 0

\* C7: prepare_region of a well-formed rectangle sets the origin to the
\* submap of p1 minus (1,1) on p1's level, and the size to the submap of p2
\* minus the origin plus (1,1).
C7_WindowOfRegion ==
    [][ \A p1 \in {r[1] : r \in Rectangles}, p2 \in {r[2] : r \in Rectangles} :
            ( /\ io'.op = "prepare_region"
              /\ p1.z = p2.z /\ p1.x <= p2.x /\ p1.y <= p2.y
              /\ PrepareRegion(p1, p2) )
            => /\ cache_pos' = tripoint(p1.x \div SEEX - 1, p1.y \div SEEX - 1, p1.z)
               /\ cache_size' = point(p2.x \div SEEX - cache_pos'.x + 1,
                                      p2.y \div SEEX - cache_pos'.y + 1) ]_vars

\* The shape of the scenario: the high corner two submaps to the right of
\* the low one in the same row gives a window of 4 x 2 submaps.
C7_Witness ==
    /\ io.op = "prepare_region"
    /\ cache_pos = tripoint(-2, -1, 0)
    /\ cache_size = point(4, 2)

\* C8: the dense array has size.x * size.y cells, and cell dy*size.x+dx is
\* the submap the store holds for origin + (dx, dy).
C8_WindowInvariant ==
    /\ Len(cached) = cache_size.x * cache_size.y
    /\ \A dx \in 0 .. cache_size.x - 1, dy \in 0 .. cache_size.y - 1 :
           LET sm == tripoint(cache_pos.x + dx, cache_pos.y + dy, cache_pos.z)
           IN  /\ sm \in DOMAIN submaps
               /\ cached[dy * cache_size.x + dx + 1] = submaps[sm]

\* A window wider than high, and a load that added submaps to the store
\* after it was built.
C8_Witness ==
    /\ cache_size.x > cache_size.y
    /\ cache_size.y > 0
    /\ io.op = "load"
    /\ io.loaded # {}

\* What a first fetch of a coordinate registers: the submap of its file, or
\* a fresh one when there is no directory, no file, or the file does not parse.
first_fetched(sm) ==
    LET path == find_submap_path(find_mm_dir, sm)
    IN  IF disk.dir /\ path \in DOMAIN disk.files /\ disk.files[path].valid
        THEN deserialize(disk.files[path])
        ELSE memorized_submap

\* C9: a call never changes or removes a tracked coordinate's entry; every
\* coordinate it fetches is tracked afterwards; the fetch of a tracked
\* coordinate reads no file, returns the tracked submap and leaves its
\* content alone; the fetch of an untracked one registers the submap of its
\* file, or a fresh one.
C9_FetchIdempotent ==
    [][ /\ \A sm \in DOMAIN submaps :
               sm \in DOMAIN submaps' /\ submaps'[sm] = submaps[sm]
        /\ \A sm \in io'.fetched :
               /\ sm \in DOMAIN submaps'
               /\ IF sm \in DOMAIN submaps
                  THEN /\ sm \notin io'.loaded
                       /\ heap'[submaps'[sm]] = heap[submaps[sm]]
                  ELSE /\ sm \in io'.loaded
                       /\ heap'[submaps'[sm]] = first_fetched(sm)
        /\ (io'.op = "prepare_region" /\ io'.fetched # {}) =>
               \A i \in 1 .. Len(cached') :
                   LET sm == tripoint(cache_pos'.x + ((i - 1) % cache_size'.x),
                                      cache_pos'.y + ((i - 1) \div cache_size'.x),
                                      cache_pos'.z)
                   IN  sm \in DOMAIN submaps => cached'[i] = submaps[sm] ]_vars

\* A tracked submap was fetched again while its content differed from what
\* a load of its coordinate would give.
C9_Witness ==
    \E sm \in io.fetched \ io.loaded : heap[submaps[sm]] # first_fetched(sm)

\* C10: after a save() in which the directory exists and every write went
\* through, every tracked coordinate has its file, and load_submap of the
\* coordinate gives a submap equal, cell by cell, to the tracked one.
C10_SaveLoadRoundTrip ==
    (io.op = "save" /\ disk.dir /\ io.failed = {}) =>
        \A sm \in DOMAIN submaps :
            /\ find_submap_path(find_mm_dir, sm) \in DOMAIN disk.files
            /\ load_submap(sm).found
            /\ \A c \in Cells :
                   /\ load_submap(sm).sm.tiles[c] = heap[submaps[sm]].tiles[c]
                   /\ load_submap(sm).sm.symbols[c] = heap[submaps[sm]].symbols[c]

\* A save that went through, of a store with remembered tiles and symbols.
C10_Witness ==
    /\ io.op = "save" /\ disk.dir /\ io.failed = {}
    /\ \E sm \in DOMAIN submaps :
           /\ \E c \in Cells : heap[submaps[sm]].tiles[c] # default_tile
           /\ \E c \in Cells : heap[submaps[sm]].symbols[c] # default_symbol

\* C11: save() returns false whenever the directory could not be created or
\* the write of a tracked submap failed; it returns true only if every
\* tracked submap was written.
C11_SaveFailurePropagated ==
    io.op = "save" =>
        /\ (~disk.dir \/ io.failed # {}) => io.ret = "false"
        /\ io.ret = "true" => (disk.dir /\ io.failed = {})

\* The file of a coordinate cannot be loaded: no directory, no file, or a
\* file that does not parse.
load_fails(sm) ==
    LET path == find_submap_path(find_mm_dir, sm)
    IN  \/ ~disk.dir
        \/ path \notin DOMAIN disk.files
        \/ ~disk.files[path].valid

\* C12: a load failure is never fatal and stays with its coordinate: for a
\* coordinate whose file cannot be loaded load_submap returns not-found and
\* the call registers a fresh all-default submap and goes on; every other
\* coordinate loaded in the same call gets the content of its own file.
C12_LoadFailuresIsolated ==
    [][ \A sm \in io'.loaded :
            /\ pc' = "running"
            /\ sm \in DOMAIN submaps'
            /\ IF load_fails(sm)
               THEN /\ ~load_submap(sm).found
                    /\ heap'[submaps'[sm]] = memorized_submap
               ELSE /\ load_submap(sm).found
                    /\ heap'[submaps'[sm]] =
                           deserialize(disk.files[find_submap_path(find_mm_dir, sm)])
      ]_vars

\* One call loaded a coordinate whose file is damaged, one whose file is
\* missing and one whose file is good; the good one has its content.
C12_Witness ==
    /\ pc = "running"
    /\ disk.dir
    /\ \E bad \in io.loaded, none \in io.loaded, good \in io.loaded :
           /\ find_submap_path(find_mm_dir, bad) \in DOMAIN disk.files
           /\ ~disk.files[find_submap_path(find_mm_dir, bad)].valid
           /\ find_submap_path(find_mm_dir, none) \notin DOMAIN disk.files
           /\ ~load_fails(good)
           /\ heap[submaps[bad]] = memorized_submap
           /\ heap[submaps[good]] = saved_submap

\* C13: load without a directory fetches no submap; with a legacy file it
\* puts every map square the file remembers into the store, with neither
\* directory nor legacy file it leaves the store as it was; and once
\* prepare_region has built a window that covers such a square's submap,
\* get_tile of the square returns what the legacy file remembers.
C13_LegacyFallback ==
    [][ /\ (io'.op = "load" /\ ~disk.dir) =>
               /\ io'.fetched = {} /\ io'.loaded = {}
               /\ IF disk.legacy.exists
                  THEN \A i \in DOMAIN disk.legacy.elems :
                           LET e  == disk.legacy.elems[i]
                               cp == coord_pair(e.pos)
                           IN  /\ cp.sm \in DOMAIN submaps'
                               /\ heap'[submaps'[cp.sm]].tiles[cp.loc] = e.tile
                               /\ heap'[submaps'[cp.sm]].symbols[cp.loc] = e.symbol
                  ELSE UNCHANGED << submaps, heap >>
        /\ (io'.op = "prepare_region" /\ pc' = "running" /\ ~disk.dir) =>
               \A i \in DOMAIN disk.legacy.elems :
                   LET e  == disk.legacy.elems[i]
                       cp == coord_pair(e.pos)
                   IN  ( /\ cp.sm \in DOMAIN submaps
                         /\ heap[submaps[cp.sm]].tiles[cp.loc] = e.tile
                         /\ covers(cp.sm)' )
                       => get_tile(e.pos)' = e.tile ]_vars

\* C14: prepare_region with p1.z # p2.z, p1.x > p2.x or p1.y > p2.y fails
\* its assertion and leaves the window, the dense array and the store as
\* they were, for good; with a well-formed rectangle it does not fail.
C14_MalformedRegionAborts ==
    [][ /\ \A r \in Rectangles :
               ( /\ io'.op = "prepare_region"
                 /\ PrepareRegion(r[1], r[2]) )
               => IF r[1].z # r[2].z \/ r[1].x > r[2].x \/ r[1].y > r[2].y
                  THEN /\ pc' = "aborted"
                       /\ UNCHANGED << cache_pos, cache_size, cached, submaps, heap >>
                  ELSE pc' = "running"
        /\ pc = "aborted" =>
               /\ pc' = "aborted"
               /\ UNCHANGED << cache_pos, cache_size, cached, submaps, heap >> ]_vars

\* The assertion failed on a process that had a window and a store.
C14_Witness ==
    /\ pc = "aborted"
    /\ io.op = "prepare_region"
    /\ cache_size.x * cache_size.y > 0
    /\ DOMAIN submaps # {}

\* C15: coord_pair(p) gives sm = (floor(p.x/S), floor(p.y/S), p.z) and a
\* local offset within [0,S) x [0,S) with sm.x*S + loc.x = p.x and
\* sm.y*S + loc.y = p.y, for negative coordinates as well.
C15_CoordRoundTrip ==
    cpair.done =>
        /\ cpair.sm.z = cpair.p.z
        /\ cpair.sm.x * SEEX <= cpair.p.x /\ cpair.p.x < (cpair.sm.x + 1) * SEEX
        /\ cpair.sm.y * SEEX <= cpair.p.y /\ cpair.p.y < (cpair.sm.y + 1) * SEEX
        /\ 0 <= cpair.loc.x /\ cpair.loc.x < SEEX
        /\ 0 <= cpair.loc.y /\ cpair.loc.y < SEEX
        /\ cpair.sm.x * SEEX + cpair.loc.x = cpair.p.x
        /\ cpair.sm.y * SEEX + cpair.loc.y = cpair.p.y

\* A position just left of the origin and more than a submap above it.
C15_Witness ==
    /\ cpair.done
    /\ cpair.p = tripoint(-1, -13, -1)
    /\ cpair.sm = tripoint(-1, -2, -1)
    /\ cpair.loc = point(11, 11)

\* C16: a point for which the estimator returns a negative value is never
\* pushed on the queue and is on no returned path, and find_path returns the
\* empty path when the estimator returns a negative value for the source.
C16_NegativeIsUnsuitable ==
    pf.pc \in {"loop", "done"} =>
        /\ \A i \in DOMAIN pf.nodes : pf.w[pf.nodes[i].pos] >= 0
        /\ \A p \in pf.pushed : pf.w[p] >= 0
        /\ \A i \in DOMAIN pf.res : pf.w[pf.res[i].pos] >= 0
        /\ ( /\ pf.pc = "done"
             /\ inbounds(pf.max, pf.source)
             /\ pf.w[pf.source] < 0 ) => pf.res = << >>

\* C17: load with the directory present fetches exactly the square of
\* 2*MAPSIZE x 2*MAPSIZE submap coordinates around the submap of pos, on the
\* level of pos; afterwards the store tracks what it tracked plus that
\* square, and the window origin, size and cells are as before.
C17_LoadFetchesSquare ==
    [][ \A pos \in FocalPositions :
            ( /\ io'.op = "load"
              /\ disk.dir
              /\ Load(pos) )
            => LET width  == 2 * MAPSIZE
                   start  == tripoint(pos.x \div SEEX - width \div 2,
                                      pos.y \div SEEX - width \div 2, pos.z)
                   square == {tripoint(start.x + dx, start.y + dy, start.z) :
                                 dx \in 0 .. width - 1, dy \in 0 .. width - 1}
               IN  /\ io'.fetched = square
                   /\ DOMAIN submaps' = DOMAIN submaps \cup square
                   /\ UNCHANGED << cache_pos, cache_size, cached >> ]_vars

\* A load that fetched its square while a window was up: some of the square
\* was tracked already, some was loaded.
C17_Witness ==
    /\ io.op = "load"
    /\ disk.dir
    /\ Cardinality(io.fetched) = MM_SIZE * MM_SIZE
    /\ io.loaded # {}
    /\ io.fetched \ io.loaded # {}
    /\ cache_size.x * cache_size.y > 0

\* The files save() writes: those of the tracked coordinates.
tracked_paths == {find_submap_path(find_mm_dir, sm) : sm \in DOMAIN submaps}

\* C18: save() writes the file of every tracked coordinate, over the file
\* that was there, and changes nothing else: no file is deleted, the file of
\* an untracked coordinate is as before, and the store, the window and the
\* submaps are as before.
C18_SaveFrame ==
    [][ io'.op = "save" =>
            /\ UNCHANGED << cache_pos, cache_size, cached, submaps, heap,
                            null_mz_submap >>
            /\ disk'.legacy = disk.legacy
            /\ DOMAIN disk'.files \subseteq DOMAIN disk.files \cup tracked_paths
            /\ \A path \in DOMAIN disk.files :
                   /\ path \in DOMAIN disk'.files
                   /\ path \notin tracked_paths => disk'.files[path] = disk.files[path]
            /\ (disk'.dir /\ io'.failed = {}) =>
                   \A sm \in DOMAIN submaps :
                       /\ find_submap_path(find_mm_dir, sm) \in DOMAIN disk'.files
                       /\ disk'.files[find_submap_path(find_mm_dir, sm)] =
                              serialize(heap[submaps[sm]]) ]_vars

\* A save that left the damaged file of the untracked (-1,0,0) alone, wrote
\* over the file of the tracked (0,0,0) and made the file of a submap with a
\* remembered tile.
C18_Witness ==
    /\ io.op = "save"
    /\ io.failed = {}
    /\ tripoint(-1, 0, 0) \notin DOMAIN submaps
    /\ find_submap_path(find_mm_dir, tripoint(-1, 0, 0)) \in DOMAIN disk.files
    /\ ~disk.files[find_submap_path(find_mm_dir, tripoint(-1, 0, 0))].valid
    /\ tripoint(0, 0, 0) \in DOMAIN submaps
    /\ \E sm \in DOMAIN submaps :
           /\ \E c \in Cells : heap[submaps[sm]].tiles[c] \in Tiles
           /\ disk.files[find_submap_path(find_mm_dir, sm)] = serialize(heap[submaps[sm]])

\* C19: a tile memorized at pos and held by the store stays what get_tile
\* returns: after a prepare_region, or a memorize call at another position,
\* with the window covering the submap of pos, get_tile(pos) returns it.
C19_RememberedSurvivesMoves ==
    [][ \A pos \in Positions, t \in Tiles :
            ( /\ io'.op \in {"prepare_region", "memorize_tile", "memorize_symbol"}
              /\ pc' = "running"
              /\ pos \in memorized
              /\ coord_pair(pos).sm \in DOMAIN submaps
              /\ heap[submaps[coord_pair(pos).sm]].tiles[coord_pair(pos).loc] = t
              /\ ~ \E t2 \in Tiles : MemorizeTile(pos, t2.ter, t2.subtile, t2.rotation)
              /\ covers(coord_pair(pos).sm)' )
            => get_tile(pos)' = t ]_vars

\* The points find_path can get to from those of S: in bounds and not
\* rejected by the estimator.
RECURSIVE reach(_)
reach(S) ==
    LET more == { q \in GridPoints :
                     /\ pf.w[q] # rejected
                     /\ \E p \in S, i \in DOMAIN pf.offsets :
                            q = point(p.x + pf.offsets[i].x, p.y + pf.offsets[i].y) }
    IN  IF more \subseteq S THEN S ELSE reach(S \cup more)

dest_reachable ==
    /\ pf.w[pf.source] # rejected
    /\ pf.dest \in reach({pf.source})

\* C20: find_path returns the empty path when source = dest, when source or
\* dest is out of bounds, or when dest cannot be reached; otherwise the path
\* starts at dest, ends at source with dir -1, lies within bounds, and every
\* node after the first is at the node before it plus offsets[its dir]. The
\* loop that draws it always arrives at source.
C20_PathShape ==
    /\ pf.pc # "undefined"
    /\ pf.pc = "done" =>
           IF \/ pf.source = pf.dest
              \/ ~inbounds(pf.max, pf.source)
              \/ ~inbounds(pf.max, pf.dest)
              \/ ~dest_reachable
           THEN pf.res = << >>
           ELSE /\ Len(pf.res) >= 2
                /\ pf.res[1].pos = pf.dest
                /\ pf.res[Len(pf.res)].pos = pf.source
                /\ pf.res[Len(pf.res)].dir = -1
                /\ \A i \in DOMAIN pf.res : inbounds(pf.max, pf.res[i].pos)
                /\ \A i \in 2 .. Len(pf.res) :
                       /\ pf.res[i - 1].dir \in 0 .. Len(pf.offsets) - 1
                       /\ pf.res[i].pos =
                              point(pf.res[i - 1].pos.x + pf.offsets[pf.res[i - 1].dir + 1].x,
                                    pf.res[i - 1].pos.y + pf.offsets[pf.res[i - 1].dir + 1].y)

\* A path of four points or more around a rejected point, with a turn in it.
C20_Witness ==
    /\ pf.pc = "done"
    /\ Len(pf.res) >= 4
    /\ \E p \in GridPoints : pf.w[p] = rejected
    /\ \E i \in 2 .. Len(pf.res) - 1 : pf.res[i].dir # pf.res[i - 1].dir

====
